---- MODULE Spec2Model ----
(***************************************************************************)
(* Crypto price tracker (main.py): the CLI poll loop of main(), the        *)
(* CryptoTracker (CSV observation store and price fetcher), the            *)
(* AlertManager (threshold check and Telegram delivery) and                *)
(* portfolio_value.                                                        *)
(*                                                                         *)
(* Python values are modelled as follows.                                  *)
(*   None / Optional : the empty tuple <<>> is None, <<p>> is the number p *)
(*   dict            : a sequence of <<key, value>> pairs with distinct    *)
(*                     keys, in insertion order (Python dicts are ordered) *)
(*   float           : an integer (the claims compare and add only)        *)
(*   the CSV file    : whether it exists, and its rows; a row is the       *)
(*                     sequence of cells csv.writer wrote, each a string   *)
(***************************************************************************)
EXTENDS Integers, Sequences, FiniteSets, TLC

\* ---------------------------------------------------------------- bounds

\* The poll loop is unbounded; the model stops fetching after MaxTicks ticks.
MaxTicks == 2
\* The wall clock (whole seconds) is read up to MaxClock.
MaxClock == 1
\* The component level calls stop appending once the file has MaxRows rows.
MaxRows == 3
\* calls of alerts.check on one observation at the component level
MaxCalls == 2

\* Sample numbers: the prices, thresholds and quantities of the component
\* level calls.
PriceValues == 0..2

\* ------------------------------------------------------- python helpers

None == <<>>
Some(v) == <<v>>

\* str.upper() and str.lower() on the symbols the model uses.
Upper(s) ==
    CASE s = "btc" -> "BTC"
      [] s = "eth" -> "ETH"
      [] s = "Xyz" -> "XYZ"
      [] s = "xyz" -> "XYZ"
      [] OTHER -> s

Lower(s) ==
    CASE s = "BTC" -> "btc"
      [] s = "ETH" -> "eth"
      [] s = "XYZ" -> "xyz"
      [] s = "Xyz" -> "xyz"
      [] OTHER -> s

\* dict: sequence of <<key, value>>.
HasKey(d, k) == \E i \in 1..Len(d) : d[i][1] = k
\* d[k] for a key that is present
At(d, k) == d[CHOOSE i \in 1..Len(d) : d[i][1] = k][2]
\* d.get(k, default)
GetOr(d, k, default) == IF HasKey(d, k) THEN At(d, k) ELSE default
\* d.get(k)
Get(d, k) == GetOr(d, k, None)
\* d[k] = v : a new key goes last, an existing key keeps its place
Put(d, k, v) ==
    IF HasKey(d, k)
    THEN [i \in 1..Len(d) |-> IF d[i][1] = k THEN <<k, v>> ELSE d[i]]
    ELSE Append(d, <<k, v>>)

\* ------------------------------------------------------ Symbol Resolver

COINGECKO_IDS == << <<"BTC", "bitcoin">>, <<"ETH", "ethereum">> >>

to_id(symbol) == GetOr(COINGECKO_IDS, Upper(symbol), Lower(Upper(symbol)))

\* now_iso(): the clock reading, second precision, formatted.
now_iso(t) == "T" \o ToString(t) \o "Z"

\* ---------------------------------------------------------- CryptoTracker

vs_currency == "usd"

\* self.symbols = [s.upper() for s in symbols]
TrackerSymbols(raw) == [i \in 1..Len(raw) |-> Upper(raw[i])]
\* self.ids = [to_id(s) for s in self.symbols]
TrackerIds(syms) == [i \in 1..Len(syms) |-> to_id(syms[i])]

\* header = ["timestamp"] + [f"{s}_{self.vs_currency}" for s in self.symbols]
Header(syms) ==
    <<"timestamp">> \o [i \in 1..Len(syms) |-> syms[i] \o "_" \o vs_currency]

\* (a slip: the header is written whether or not the file exists)
ensure_csv_Always(exists, rows, syms) == <<Header(syms)>>

\* _ensure_csv: the file's rows after the call.  open(path, "w") of a file
\* that does not exist creates it; the header is its only row.
ensure_csv(exists, rows, syms) == IF ~exists THEN <<Header(syms)>> ELSE rows

\* csv.writer's text for a cell: None is the empty string, a number its str.
Cell(v) == IF v = None THEN "" ELSE ToString(v[1])

\* (a slip: the absent prices are left out of the row)
LogRow_OmitsAbsent(t, prices, syms) ==
    <<now_iso(t)>> \o
    SelectSeq([i \in 1..Len(syms) |-> Cell(Get(prices, syms[i]))], LAMBDA c : c # "")

\* row = [now_iso()] + [prices.get(s) for s in self.symbols], as written
LogRow(t, prices, syms) ==
    <<now_iso(t)>> \o [i \in 1..Len(syms) |-> Cell(Get(prices, syms[i]))]

\* (a slip: the file is opened with "w")
log_append_Truncating(rows, row) == <<row>>

\* open(path, "a") then writer.writerow(row): the rows after the call
log_append(rows, row) == Append(rows, row)

\* The response of the provider, parsed: ids outside DOMAIN data are missing;
\* data[id] is a dict that lacks the currency key (NoKey) or has it, with
\* null (Quoted(None)) or a number p (Quoted(Some(p))) under it.
NoKey == <<FALSE, None>>
Quoted(v) == <<TRUE, v>>

\* (a slip: "if price" for "if price is not None", a zero price is dropped)
ResponsePrice_Falsy(data, idx) ==
    IF idx \in DOMAIN data /\ data[idx][1] /\ data[idx][2] # Some(0)
    THEN data[idx][2]
    ELSE None

\* price = data.get(idx, {}).get(self.vs_currency)
\* float(price) if price is not None else None
ResponsePrice(data, idx) ==
    IF idx \in DOMAIN data
    THEN IF data[idx][1] THEN data[idx][2] ELSE None
    ELSE None

RECURSIVE FetchLoop(_, _, _, _, _)
FetchLoop(out, syms, ids, data, i) ==
    IF i > Len(syms) THEN out
    ELSE FetchLoop(Put(out, syms[i], ResponsePrice(data, ids[i])),
                   syms, ids, data, i + 1)

\* fetch_prices on a response that parsed: out[sym] per (sym, idx) of the zip
fetch_prices(syms, ids, data) == FetchLoop(<<>>, syms, ids, data, 1)

\* (a slip: the last tracked symbol is left out of the substitute mapping)
AllAbsent_Partial(syms) ==
    IF syms = <<>> THEN <<>>
    ELSE [i \in 1..(Len(syms) - 1) |-> <<syms[i], None>>]

\* prices = {s: None for s in tracker.symbols}
RECURSIVE AbsentLoop(_, _, _)
AbsentLoop(out, syms, i) ==
    IF i > Len(syms) THEN out ELSE AbsentLoop(Put(out, syms[i], None), syms, i + 1)

AllAbsent(syms) == AbsentLoop(<<>>, syms, 1)

\* ----------------------------------------------------------- AlertManager

\* self.thresholds = {k.upper(): v for k, v in (thresholds or {}).items()}
RECURSIVE UpperKeys(_, _, _)
UpperKeys(out, d, i) ==
    IF i > Len(d) THEN out ELSE UpperKeys(Put(out, Upper(d[i][1]), d[i][2]), d, i + 1)

AlertThresholds(parsed) == UpperKeys(<<>>, parsed, 1)

\* msg = f"ALERT: {sym} price {price} <= threshold {thr}"
AlertMsg(sym, price, thr) == [sym |-> sym, price |-> price, thr |-> thr]

\* (a slip: < for <=)
Crosses_Strict(price, thr) == price < thr

\* the test of line 111
Crosses(price, thr) == price <= thr

\* check(): one pass over prices.items()
RECURSIVE CheckLoop(_, _, _, _)
CheckLoop(messages, ps, thrs, i) ==
    IF i > Len(ps) THEN messages
    ELSE LET sym == ps[i][1]
             price == ps[i][2]
             thr == Get(thrs, sym)
         IN IF price = None THEN CheckLoop(messages, ps, thrs, i + 1)
            ELSE IF thr # None /\ Crosses(price[1], thr[1])
                 THEN CheckLoop(Append(messages, AlertMsg(sym, price[1], thr[1])),
                                ps, thrs, i + 1)
                 ELSE CheckLoop(messages, ps, thrs, i + 1)

\* (a slip: an absent price is taken for zero)
check_AbsentAsZero(ps, thrs) ==
    CheckLoop(<<>>, [i \in 1..Len(ps) |->
                        <<ps[i][1], IF ps[i][2] = None THEN Some(0) ELSE ps[i][2]>>],
              thrs, 1)

check(ps, thrs) == CheckLoop(<<>>, ps, thrs, 1)

\* if not (self.telegram_token and self.telegram_chat_id): return
HasCredentials(tg) == tg.token /\ tg.chat_id

\* ------------------------------------------------------ portfolio_value

RECURSIVE ValueLoop(_, _, _, _)
ValueLoop(total, ps, hs, i) ==
    IF i > Len(hs) THEN total
    ELSE LET p == Get(ps, Upper(hs[i][1]))
         IN IF p = None THEN ValueLoop(total, ps, hs, i + 1)
            ELSE ValueLoop(total + p[1] * hs[i][2][1], ps, hs, i + 1)

\* (a slip: break for continue, the sum stops at the first absent price)
RECURSIVE ValueLoop_Break(_, _, _, _)
ValueLoop_Break(total, ps, hs, i) ==
    IF i > Len(hs) THEN total
    ELSE LET p == Get(ps, Upper(hs[i][1]))
         IN IF p = None THEN total
            ELSE ValueLoop_Break(total + p[1] * hs[i][2][1], ps, hs, i + 1)

portfolio_value_Break(ps, hs) == ValueLoop_Break(0, ps, hs, 1)

portfolio_value(ps, hs) == ValueLoop(0, ps, hs, 1)

\* ------------------------------------------------------------- display

\* f"{s}: {prices.get(s, 'N/A')}" : a key that is present with the value None
\* prints as "None"; 'N/A' is printed only for a key that is missing.
DisplayCell(ps, s) ==
    s \o ": " \o (IF ~HasKey(ps, s) THEN "N/A"
                  ELSE IF At(ps, s) = None THEN "None" ELSE ToString(At(ps, s)[1]))

Display(ps, syms) == [i \in 1..Len(syms) |-> DisplayCell(ps, syms[i])]

\* ---------------------------------------------------------------- state

VARIABLES
    symbols,      \* tracker.symbols
    csv_path,     \* csv_path of main(): "" when logging is disabled
    thresholds,   \* alerts.thresholds
    holdings,     \* holdings of main()
    run_once,     \* args.run_once
    plot,         \* args.plot
    interval,     \* args.interval
    telegram,     \* alerts.telegram_token, alerts.telegram_chat_id (set or not)
    pc,           \* the position of main()
    tick,         \* fetches started so far
    clock,        \* the wall clock, in seconds
    prices,       \* prices of the current tick
    out,          \* the lines printed since the current tick began, or
                  \* since the loop ended
    msgs,         \* msgs of the current tick
    attempts,     \* the requests.post calls of the current tick: <<msg, ok>>
    plots,        \* the plot_from_csv calls: <<symbol, ok>>
    fileExists,   \* os.path.exists(csv_path)
    fileRows,     \* the rows of the file at csv_path
    rows0,        \* history: the rows of the file (dashboard: of the session
                  \* history) when the loop began
    checks,       \* history: calls of alerts.check
    sleeps,       \* history: the arguments of the time.sleep calls
    fails,        \* history: the fetches that failed in a row, up to now
    requests,     \* history: the requests.get calls made
    history,      \* dashboard: the rows of st.session_state.history
    call          \* component level: the last call and its result

config == <<symbols, csv_path, thresholds, holdings, run_once, plot, interval, telegram>>
file == <<fileExists, fileRows>>
hist == <<rows0, checks, sleeps, fails, requests>>
vars == <<config, pc, tick, clock, prices, out, msgs, attempts, plots, file, hist, call,
          history>>

\* The positions inside the try block of main() (lines 216-245).
LoopPcs == {"fetch", "display", "log", "check", "send", "portfolio", "run_once", "sleep"}

\* -------------------------------------------------------- configurations

\* --symbols as typed (argparse nargs="+": at least one)
CliSymbols == { <<"btc", "ETH">>, <<"BTC", "BTC">> }
\* parse_thresholds / parse_holdings results
CliThresholds == { <<>>, << <<"BTC", Some(1)>>, <<"ETH", Some(1)>> >> }
CliHoldings == { <<>>, << <<"BTC", Some(2)>>, <<"ETH", Some(1)>> >> }
CliTelegram == [token : BOOLEAN, chat_id : BOOLEAN]
CliCsv == { "", "prices.csv" }
CliInterval == { 15 }

\* The file at csv_path before the process starts: left by an earlier run
\* that tracked the same symbols and logged one tick.  (Trackers constructed
\* on a missing or an empty file are in SpecStore.)
EarlierRuns(syms) ==
    { [exists |-> TRUE, rows |-> <<Header(syms), LogRow(0, AllAbsent(syms), syms)>>] }

\* Sample quotes of the provider in the poll loop.  Against the thresholds
\* above, bitcoin is quoted at the threshold and over it, ethereum under it
\* (at zero).
Quotes(id) == IF id = "bitcoin" THEN {1, 2} ELSE {0}

\* an id's entry in a response, prices from ps
Entries(ps) == {NoKey, Quoted(None)} \cup {Quoted(Some(p)) : p \in ps}

\* The provider's possible responses for the ids asked for: an id may be
\* left out, and an id's entry may lack the currency key or hold null.
Responses(ids) ==
    LET idset == {ids[i] : i \in 1..Len(ids)}
        entries(I) == { d \in [I -> Entries(0..2)] :
                          \A id \in I : d[id][2] = None \/ d[id][2][1] \in Quotes(id) }
    IN UNION { entries(I) : I \in SUBSET idset }

\* A reading of the clock: the clock has not gone back since the last one.
Readings == {t \in clock..(clock + 1) : t <= MaxClock}

\* ----------------------------------------------------------------- Init

\* main() lines 207-215: arguments parsed, tracker constructed (which runs
\* _ensure_csv when csv_path is set), "Tracking: ..." printed.
Init ==
    /\ \E raw \in CliSymbols : symbols = TrackerSymbols(raw)
    /\ csv_path \in CliCsv
    /\ \E t \in CliThresholds : thresholds = AlertThresholds(t)
    /\ holdings \in CliHoldings
    /\ run_once \in BOOLEAN
    /\ plot \in BOOLEAN
    /\ interval \in CliInterval
    /\ telegram \in CliTelegram
    /\ IF csv_path # ""
       THEN \E f \in EarlierRuns(symbols) :
               /\ fileExists = TRUE
               /\ fileRows = ensure_csv(f.exists, f.rows, symbols)
       ELSE /\ fileExists = FALSE
            /\ fileRows = <<>>
    /\ rows0 = fileRows
    /\ pc = "fetch"
    /\ tick = 0
    /\ clock = 0
    /\ prices = <<>>
    /\ out = <<>>
    /\ msgs = <<>>
    /\ attempts = <<>>
    /\ plots = <<>>
    /\ checks = 0
    /\ sleeps = <<>>
    /\ fails = 0
    /\ requests = 0
    /\ history = <<>>
    /\ call = <<>>

\* ------------------------------------------------- the poll loop of main()

\* Once the loop has ended nothing reads prices and msgs again: the model
\* forgets the tick's values there.
ForgetTick ==
    /\ prices' = <<>>
    /\ msgs' = <<>>
    /\ attempts' = <<>>

\* What every tick starts from: fetch_prices is called and makes its request
\* (line 76); lines 218-222 rebind prices; the printed lines, the messages
\* and the delivery attempts recorded are the tick's.
BeginTick ==
    /\ pc = "fetch"
    /\ tick < MaxTicks
    /\ tick' = tick + 1
    /\ requests' = requests + 1
    /\ msgs' = <<>>
    /\ attempts' = <<>>
    /\ pc' = "display"
    /\ UNCHANGED <<config, clock, plots, file, rows0, checks, sleeps, call, history>>

\* line 219, fetch_prices returns
FetchOk ==
    /\ BeginTick
    /\ \E data \in Responses(TrackerIds(symbols)) :
          prices' = fetch_prices(symbols, TrackerIds(symbols), data)
    /\ out' = <<>>
    /\ fails' = 0

\* lines 220-222: fetch_prices raised an Exception (the request, the status,
\* the JSON or the float conversion)
FetchFail ==
    /\ BeginTick
    /\ prices' = AllAbsent(symbols)
    /\ out' = << <<"Fetch failed:">> >>
    /\ fails' = fails + 1

\* (a slip: the tick goes from the display straight to the alerts)
DisplayTick_SkipsLog ==
    /\ pc = "display"
    /\ \E t \in Readings :
          /\ clock' = t
          /\ out' = Append(out, <<"tick", now_iso(t), Display(prices, symbols)>>)
    /\ pc' = "check"
    /\ UNCHANGED <<config, tick, prices, msgs, attempts, plots, file, hist, call, history>>

\* lines 224-226
DisplayTick ==
    /\ pc = "display"
    /\ \E t \in Readings :
          /\ clock' = t
          /\ out' = Append(out, <<"tick", now_iso(t), Display(prices, symbols)>>)
    /\ pc' = "log"
    /\ UNCHANGED <<config, tick, prices, msgs, attempts, plots, file, hist, call, history>>

\* line 228, csv_path is falsy: tracker.log is not called
LogSkip ==
    /\ pc = "log"
    /\ csv_path = ""
    /\ pc' = "check"
    /\ UNCHANGED <<config, tick, clock, prices, out, msgs, attempts, plots, file, hist, call,
                   history>>

\* lines 228-229 and 85-91: the row is appended
LogWrite ==
    /\ pc = "log"
    /\ csv_path # ""
    /\ \E t \in Readings :
          /\ clock' = t
          /\ fileRows' = log_append(fileRows, LogRow(t, prices, symbols))
    /\ fileExists' = TRUE
    /\ pc' = "check"
    /\ UNCHANGED <<config, tick, prices, out, msgs, attempts, plots, hist, call, history>>

\* line 89 raises OSError (the path cannot be opened for append): nothing in
\* main() catches it, the exception leaves main() and the process ends
\* with a traceback.
LogRaise ==
    /\ pc = "log"
    /\ csv_path # ""
    /\ pc' = "crashed"
    /\ ForgetTick
    /\ out' = << <<"Traceback">> >>
    /\ UNCHANGED <<config, tick, clock, plots, file, hist, call, history>>

\* lines 231-234 (and 235 when there is nothing to send)
AlertLines(ms) == [i \in 1..Len(ms) |-> <<"ALERT:", ms[i]>>]

\* (a slip: a symbol alerted in the first tick is not alerted again)
CheckAlerts_Debounced ==
    /\ pc = "check"
    /\ msgs' = IF tick > 1 THEN <<>> ELSE check(prices, thresholds)
    /\ checks' = checks + 1
    /\ out' = out \o [i \in 1..Len(msgs') |-> <<"ALERT:", msgs'[i]>>]
    /\ pc' = IF msgs' # <<>> THEN "send" ELSE "portfolio"
    /\ UNCHANGED <<config, tick, clock, prices, attempts, plots, file, rows0, sleeps, fails,
                   call, requests, history>>

CheckAlerts ==
    /\ pc = "check"
    /\ msgs' = check(prices, thresholds)
    /\ checks' = checks + 1
    /\ out' = out \o AlertLines(msgs')
    /\ pc' = IF msgs' # <<>> THEN "send" ELSE "portfolio"
    /\ UNCHANGED <<config, tick, clock, prices, attempts, plots, file, rows0, sleeps, fails,
                   call, requests, history>>

\* line 235 and 117-118: no credentials, send_telegram returns at once
SendSkip ==
    /\ pc = "send"
    /\ ~HasCredentials(telegram)
    /\ pc' = "portfolio"
    /\ UNCHANGED <<config, tick, clock, prices, out, msgs, attempts, plots, file, hist, call,
                   history>>

\* (a slip: the batch is given up at the first post that raises)
SendOne_StopsAtFailure ==
    /\ pc = "send"
    /\ HasCredentials(telegram)
    /\ Len(attempts) < Len(msgs)
    /\ \E ok \in BOOLEAN :
          /\ attempts' = Append(attempts, <<msgs[Len(attempts) + 1], ok>>)
          /\ out' = IF ok THEN out ELSE Append(out, <<"Failed to send telegram:">>)
          /\ pc' = IF Len(attempts') = Len(msgs) \/ ~ok THEN "portfolio" ELSE "send"
    /\ UNCHANGED <<config, tick, clock, prices, msgs, plots, file, hist, call, history>>

\* lines 119-124: the next message is posted; an Exception of the post is
\* caught and printed.  (ok covers every post that returns, whatever the
\* status of the response: the response is not looked at.)
SendOne ==
    /\ pc = "send"
    /\ HasCredentials(telegram)
    /\ Len(attempts) < Len(msgs)
    /\ \E ok \in BOOLEAN :
          /\ attempts' = Append(attempts, <<msgs[Len(attempts) + 1], ok>>)
          /\ out' = IF ok THEN out ELSE Append(out, <<"Failed to send telegram:">>)
    /\ pc' = IF Len(attempts') = Len(msgs) THEN "portfolio" ELSE "send"
    /\ UNCHANGED <<config, tick, clock, prices, msgs, plots, file, hist, call, history>>

\* lines 237-239
Portfolio ==
    /\ pc = "portfolio"
    /\ out' = IF holdings # <<>>
              THEN Append(out, <<"PORTFOLIO VALUE:", portfolio_value(prices, holdings)>>)
              ELSE out
    /\ pc' = "run_once"
    /\ UNCHANGED <<config, tick, clock, prices, msgs, attempts, plots, file, hist, call,
                   history>>

\* (a slip: run once is ignored and the loop sleeps on)
Break_Sleeps ==
    /\ pc = "run_once"
    /\ run_once
    /\ pc' = "sleep"
    /\ UNCHANGED <<config, tick, clock, prices, out, msgs, attempts, plots, file, hist, call,
                   history>>

\* lines 241-242: break
Break ==
    /\ pc = "run_once"
    /\ run_once
    /\ pc' = "plot"
    /\ ForgetTick
    /\ out' = <<>>
    /\ UNCHANGED <<config, tick, clock, plots, file, hist, call, history>>

\* line 241, not run_once: on to line 245
Continue ==
    /\ pc = "run_once"
    /\ ~run_once
    /\ pc' = "sleep"
    /\ UNCHANGED <<config, tick, clock, prices, out, msgs, attempts, plots, file, hist, call,
                   history>>

\* line 245
Sleep ==
    /\ pc = "sleep"
    /\ sleeps' = Append(sleeps, interval)
    /\ pc' = "fetch"
    /\ UNCHANGED <<config, tick, clock, prices, out, msgs, attempts, plots, file, rows0, checks,
                   fails, call, requests, history>>

\* lines 246-247: KeyboardInterrupt raised anywhere in the try block.  The
\* handlers of lines 220 and 123 catch Exception, which KeyboardInterrupt is
\* not.  Inside tracker.log the row is either not yet written (this action at
\* "log") or written and flushed by the with block (this action at "check").
Interrupt ==
    /\ pc \in LoopPcs
    /\ out' = << <<"Stopped by user.">> >>
    /\ pc' = "plot"
    /\ ForgetTick
    /\ UNCHANGED <<config, tick, clock, plots, file, hist, call, history>>

\* line 249
Plotting == plot /\ csv_path # ""

\* lines 250-255: one symbol's chart; an Exception of plot_from_csv is caught
PlotOne ==
    /\ pc = "plot"
    /\ Plotting
    /\ Len(plots) < Len(symbols)
    /\ \E ok \in BOOLEAN :
          /\ plots' = Append(plots, <<symbols[Len(plots) + 1], ok>>)
          /\ out' = Append(out, <<IF ok THEN "Saved plot:" ELSE "Plot failed for",
                                  symbols[Len(plots) + 1]>>)
    /\ UNCHANGED <<config, pc, tick, clock, prices, msgs, attempts, file, hist, call, history>>

\* (a slip: the charts are skipped when the loop was interrupted)
Exit_SkipsPlots ==
    /\ pc = "plot"
    /\ pc' = "exit"
    /\ UNCHANGED <<config, tick, clock, prices, out, msgs, attempts, plots, file, hist, call,
                   history>>

\* main() returns
Exit ==
    /\ pc = "plot"
    /\ ~Plotting \/ Len(plots) = Len(symbols)
    /\ pc' = "exit"
    /\ UNCHANGED <<config, tick, clock, prices, out, msgs, attempts, plots, file, hist, call,
                   history>>

Next ==
    \/ FetchOk
    \/ FetchFail
    \/ DisplayTick
    \/ LogSkip
    \/ LogWrite
    \/ LogRaise
    \/ CheckAlerts
    \/ SendSkip
    \/ SendOne
    \/ Portfolio
    \/ Break
    \/ Continue
    \/ Sleep
    \/ Interrupt
    \/ PlotOne
    \/ Exit

Spec == Init /\ [][Next]_vars

\* ------------------------------------------ the observation store by itself

\* A CryptoTracker used directly: trackers are constructed against the same
\* csv_path one after the other (a process restart constructs a new one) and
\* log() is called with any price mapping.

StoreSymbols == { <<>>, <<"btc">>, <<"BTC", "ETH">> }

\* dicts over the keys ks (in this order), every value from vs
RECURSIVE DictsOver(_, _)
DictsOver(ks, vs) ==
    IF ks = <<>> THEN { <<>> }
    ELSE LET rest == DictsOver(Tail(ks), vs)
         IN rest \cup { <<<<Head(ks), v>>>> \o d : v \in vs, d \in rest }

\* price mappings passed to log(): keys may be missing, values may be None
StorePrices == DictsOver(<<"BTC", "ETH">>, {None, Some(1)})

\* The loop's variables play no part at the component level.
NoLoop ==
    /\ thresholds = <<>>
    /\ holdings = <<>>
    /\ run_once = FALSE
    /\ plot = FALSE
    /\ interval = 15
    /\ telegram = [token |-> FALSE, chat_id |-> FALSE]
    /\ tick = 0
    /\ prices = <<>>
    /\ out = <<>>
    /\ msgs = <<>>
    /\ attempts = <<>>
    /\ plots = <<>>
    /\ checks = 0
    /\ sleeps = <<>>
    /\ fails = 0
    /\ requests = 0
    /\ history = <<>>

\* Before the first tracker: the file is missing, or exists and is empty.
InitStore ==
    /\ NoLoop
    /\ pc = "store"
    /\ symbols = <<>>
    /\ csv_path = ""
    /\ fileExists \in BOOLEAN
    /\ fileRows = <<>>
    /\ rows0 = <<>>
    /\ clock = 0
    /\ call = <<"none">>

\* CryptoTracker(symbols, csv_path=...) : lines 55-64
Construct ==
    /\ pc = "store"
    /\ \E raw \in StoreSymbols : symbols' = TrackerSymbols(raw)
    /\ csv_path' \in CliCsv
    /\ IF csv_path' # ""
       THEN /\ fileRows' = ensure_csv(fileExists, fileRows, symbols')
            /\ fileExists' = TRUE
       ELSE UNCHANGED file
    /\ call' = <<"init">>
    /\ UNCHANGED <<thresholds, holdings, run_once, plot, interval, telegram, pc, tick, clock,
                   prices, out, msgs, attempts, plots, hist, history>>

\* tracker.log(ps) : lines 85-91
LogCall ==
    /\ pc = "store"
    /\ call # <<"none">>
    /\ Len(fileRows) < MaxRows
    /\ \E ps \in StorePrices :
          /\ call' = <<"log", ps>>
          /\ IF csv_path = ""
             THEN UNCHANGED <<file, clock>>
             ELSE \E t \in Readings :
                     /\ clock' = t
                     /\ fileRows' = log_append(fileRows, LogRow(t, ps, symbols))
                     /\ fileExists' = TRUE
    /\ UNCHANGED <<config, pc, tick, prices, out, msgs, attempts, plots, hist, history>>

NextStore == Construct \/ LogCall

SpecStore == InitStore /\ [][NextStore]_vars

\* ----------------------------------------------- AlertManager.check by itself

\* Any price mapping (keys in any order, values None or a number) against
\* any threshold mapping.
CheckPrices ==
    DictsOver(<<"BTC", "ETH">>, {None} \cup {Some(p) : p \in PriceValues})
    \cup DictsOver(<<"ETH", "BTC">>, {None} \cup {Some(p) : p \in PriceValues})

CheckThresholds == DictsOver(<<"btc", "ETH">>, {Some(p) : p \in PriceValues})

\* tracker.symbols of the tracker next to the AlertManager
CheckSymbols == { <<"BTC", "ETH">>, <<"ETH", "BTC">>, <<"BTC", "BTC">> }

\* What a tracker of syms hands to check: the result of fetch_prices on any
\* response (lines 79-83), or the substitute of line 222.
Observations(syms) ==
    LET ids == TrackerIds(syms)
        idset == {ids[i] : i \in 1..Len(ids)}
        datas == UNION { [I -> Entries(PriceValues)] : I \in SUBSET idset }
    IN {fetch_prices(syms, ids, data) : data \in datas} \cup {AllAbsent(syms)}

InitCheck ==
    /\ pc = "call"
    /\ prices \in CheckPrices
    /\ \E t \in CheckThresholds : thresholds = AlertThresholds(t)
    /\ symbols \in CheckSymbols
    /\ csv_path = ""
    /\ holdings = <<>>
    /\ run_once = FALSE
    /\ plot = FALSE
    /\ interval = 15
    /\ telegram = [token |-> FALSE, chat_id |-> FALSE]
    /\ tick = 0
    /\ clock = 0
    /\ out = <<>>
    /\ msgs = <<>>
    /\ attempts = <<>>
    /\ plots = <<>>
    /\ fileExists = FALSE
    /\ fileRows = <<>>
    /\ rows0 = <<>>
    /\ checks = 0
    /\ sleeps = <<>>
    /\ fails = 0
    /\ requests = 0
    /\ history = <<>>
    /\ call = <<"none">>

\* (a slip: a threshold that alerted is dropped from self.thresholds)
CheckCall_Consuming ==
    /\ pc \in {"call", "returned"}
    /\ checks < MaxCalls
    /\ msgs' = check(prices, thresholds)
    /\ thresholds' = SelectSeq(thresholds,
                              LAMBDA e : \A i \in 1..Len(msgs') : msgs'[i].sym # e[1])
    /\ checks' = checks + 1
    /\ call' = <<"check">>
    /\ pc' = "returned"
    /\ UNCHANGED <<symbols, csv_path, holdings, run_once, plot, interval, telegram, tick, clock,
                   prices, out, attempts, plots, file, rows0, sleeps, fails, requests, history>>

\* msgs = alerts.check(prices), the first call or a repeated one: check
\* assigns to its local messages only (lines 104-114)
CheckCall ==
    /\ pc \in {"call", "returned"}
    /\ checks < MaxCalls
    /\ msgs' = check(prices, thresholds)
    /\ checks' = checks + 1
    /\ call' = <<"check">>
    /\ pc' = "returned"
    /\ UNCHANGED <<config, tick, clock, prices, out, attempts, plots, file, rows0, sleeps,
                   fails, requests, history>>

NextCheck == CheckCall

SpecCheck == InitCheck /\ [][NextCheck]_vars

\* --------------------------------------------------- fetch_prices by itself

\* A tracker without a log, constructed directly (symbols may be empty), next
\* to an AlertManager and holdings; fetch_prices is called once.
FetchSymbols == { <<>>, <<"btc">>, <<"BTC", "ETH">>, <<"Xyz", "ETH">> }

FetchResponses(ids) ==
    LET idset == {ids[i] : i \in 1..Len(ids)}
    IN UNION { [I -> Entries({0, 1})] : I \in SUBSET idset }

InitFetch ==
    /\ pc = "call"
    /\ \E raw \in FetchSymbols : symbols = TrackerSymbols(raw)
    /\ \E t \in CliThresholds : thresholds = AlertThresholds(t)
    /\ holdings \in CliHoldings
    /\ csv_path = ""
    /\ run_once = FALSE
    /\ plot = FALSE
    /\ interval = 15
    /\ telegram = [token |-> FALSE, chat_id |-> FALSE]
    /\ tick = 0
    /\ clock = 0
    /\ prices = <<>>
    /\ out = <<>>
    /\ msgs = <<>>
    /\ attempts = <<>>
    /\ plots = <<>>
    /\ fileExists = FALSE
    /\ fileRows = <<>>
    /\ rows0 = <<>>
    /\ checks = 0
    /\ sleeps = <<>>
    /\ fails = 0
    /\ requests = 0
    /\ history = <<>>
    /\ call = <<"none">>

\* lines 74-83: the request is made (line 76) whatever self.ids holds, the
\* status is good and the body parses; the result is returned
FetchReturn ==
    /\ pc = "call"
    /\ requests' = requests + 1
    /\ \E data \in FetchResponses(TrackerIds(symbols)) :
          /\ call' = <<"fetch", data>>
          /\ prices' = fetch_prices(symbols, TrackerIds(symbols), data)
    /\ pc' = "returned"
    /\ UNCHANGED <<config, tick, clock, out, msgs, attempts, plots, file, rows0, checks,
                   sleeps, fails, history>>

\* lines 76-78: the request is made and requests.get, raise_for_status or
\* resp.json() raises
FetchRaise ==
    /\ pc = "call"
    /\ requests' = requests + 1
    /\ call' = <<"fetch">>
    /\ pc' = "raised"
    /\ UNCHANGED <<config, tick, clock, prices, out, msgs, attempts, plots, file, rows0,
                   checks, sleeps, fails, history>>

NextFetch == FetchReturn \/ FetchRaise

SpecFetch == InitFetch /\ [][NextFetch]_vars

\* ------------------------------------------------- portfolio_value by itself

\* Any price mapping over the symbols BTC and ETH against any holdings.
ValuePrices == DictsOver(<<"BTC", "ETH">>, {None} \cup {Some(p) : p \in PriceValues})

\* holdings as parse_holdings gives them, and with a key typed in lower case
ValueHoldings ==
    DictsOver(<<"BTC", "ETH">>, {Some(1), Some(2)})
    \cup DictsOver(<<"btc", "ETH">>, {Some(1), Some(2)})

InitValue ==
    /\ pc = "call"
    /\ prices \in ValuePrices
    /\ holdings \in ValueHoldings
    /\ thresholds = <<>>
    /\ symbols = <<>>
    /\ csv_path = ""
    /\ run_once = FALSE
    /\ plot = FALSE
    /\ interval = 15
    /\ telegram = [token |-> FALSE, chat_id |-> FALSE]
    /\ tick = 0
    /\ clock = 0
    /\ out = <<>>
    /\ msgs = <<>>
    /\ attempts = <<>>
    /\ plots = <<>>
    /\ fileExists = FALSE
    /\ fileRows = <<>>
    /\ rows0 = <<>>
    /\ checks = 0
    /\ sleeps = <<>>
    /\ fails = 0
    /\ requests = 0
    /\ history = <<>>
    /\ call = <<"none">>

\* val = portfolio_value(prices, holdings)
ValueCall ==
    /\ pc = "call"
    /\ call' = <<"value", portfolio_value(prices, holdings)>>
    /\ pc' = "returned"
    /\ UNCHANGED <<config, tick, clock, prices, out, msgs, attempts, plots, file, hist,
                   history>>

NextValue == ValueCall

SpecValue == InitValue /\ [][NextValue]_vars

\* --------------------------------------- the dashboard (streamlit_app.py)

\* for _ in range(1000)
LiveTicks == 1000

SYMBOL_TO_ID ==
    << <<"BTC", "bitcoin">>, <<"ETH", "ethereum">>, <<"ADA", "cardano">>,
       <<"SOL", "solana">>, <<"DOGE", "dogecoin">> >>

\* SYMBOL_TO_ID.get(s.upper(), s.lower())
dash_id(s) == GetOr(SYMBOL_TO_ID, Upper(s), Lower(s))

\* fetch(symbols) on a response that parsed: out[s] = data.get(idx, {}).get(vs)
RECURSIVE DashFetchLoop(_, _, _, _)
DashFetchLoop(acc, syms, data, i) ==
    IF i > Len(syms) THEN acc
    ELSE DashFetchLoop(Put(acc, syms[i], ResponsePrice(data, dash_id(syms[i]))),
                       syms, data, i + 1)

fetch(syms, data) == DashFetchLoop(<<>>, syms, data, 1)

\* datetime.utcnow().isoformat()
utc_iso(t) == "U" \o ToString(t)

\* row = {"timestamp": ...}; row.update({k: prices.get(k) for k in symbols})
DashRow(t, ps, syms) == <<utc_iso(t)>> \o [i \in 1..Len(syms) |-> Get(ps, syms[i])]

\* the Symbols multiselect (it may be cleared) and the interval input
DashSymbols == { <<>>, <<"ETH">>, <<"BTC", "ETH">> }
DashInterval == { 5, 10 }

\* A sample of the provider over a run: what it answers to the n-th request.
DashData(n) ==
    [id \in {"bitcoin", "ethereum"} |->
        IF id = "bitcoin" THEN Quoted(Some(n % 3))
        ELSE IF n % 2 = 0 THEN NoKey ELSE Quoted(Some(1))]

\* what an earlier start of the session left in st.session_state.history
EarlierHistory(syms) == { <<>>, <<DashRow(0, <<>>, syms)>> }

\* The script runs from the top (lines 33-43): the widgets have their values
\* and the session has its history.
InitDash ==
    /\ pc = "script"
    /\ symbols \in DashSymbols
    /\ interval \in DashInterval
    /\ history \in EarlierHistory(symbols)
    /\ rows0 = history
    /\ thresholds = <<>>
    /\ holdings = <<>>
    /\ csv_path = ""
    /\ run_once = FALSE
    /\ plot = FALSE
    /\ telegram = [token |-> FALSE, chat_id |-> FALSE]
    /\ tick = 0
    /\ clock = 0
    /\ prices = <<>>
    /\ out = <<>>
    /\ msgs = <<>>
    /\ attempts = <<>>
    /\ plots = <<>>
    /\ fileExists = FALSE
    /\ fileRows = <<>>
    /\ checks = 0
    /\ sleeps = <<>>
    /\ fails = 0
    /\ requests = 0
    /\ call = <<>>

\* line 45, run is true: Start Live was pressed
StartLive ==
    /\ pc = "script"
    /\ pc' = "live_fetch"
    /\ UNCHANGED <<config, tick, clock, prices, out, msgs, attempts, plots, file, hist, call,
                   history>>

\* lines 72-73, run is false
NotStarted ==
    /\ pc = "script"
    /\ out' = << <<"Press Start Live in the sidebar to begin polling.">> >>
    /\ pc' = "done"
    /\ UNCHANGED <<config, tick, clock, prices, msgs, attempts, plots, file, hist, call,
                   history>>

\* lines 46-48: the next iteration of range(1000), fetch returns
LiveFetchOk ==
    /\ pc = "live_fetch"
    /\ tick < LiveTicks
    /\ tick' = tick + 1
    /\ requests' = requests + 1
    /\ prices' = fetch(symbols, DashData(requests + 1))
    /\ pc' = "live_append"
    /\ UNCHANGED <<config, clock, out, msgs, attempts, plots, file, rows0, checks, sleeps,
                   fails, call, history>>

\* (a slip: after the error the loop goes on with what it had)
LiveFetchFail_GoesOn ==
    /\ pc = "live_fetch"
    /\ tick < LiveTicks
    /\ tick' = tick + 1
    /\ requests' = requests + 1
    /\ fails' = fails + 1
    /\ out' = << <<"st.error", "Fetch failed:">> >>
    /\ pc' = "live_append"
    /\ UNCHANGED <<config, clock, prices, msgs, attempts, plots, file, rows0, checks, sleeps,
                   call, history>>

\* lines 46-51: the next iteration, fetch raises an Exception: st.error, break
LiveFetchFail ==
    /\ pc = "live_fetch"
    /\ tick < LiveTicks
    /\ tick' = tick + 1
    /\ requests' = requests + 1
    /\ fails' = fails + 1
    /\ out' = << <<"st.error", "Fetch failed:">> >>
    /\ pc' = "done"
    /\ UNCHANGED <<config, clock, prices, msgs, attempts, plots, file, rows0, checks, sleeps,
                   call, history>>

\* lines 54-58: the row is added to the session history
LiveAppend ==
    /\ pc = "live_append"
    /\ history' = Append(history, DashRow(clock, prices, symbols))
    /\ pc' = "live_show"
    /\ UNCHANGED <<config, tick, clock, prices, out, msgs, attempts, plots, file, hist, call>>

\* lines 61-68: the placeholder is filled again
LiveShow ==
    /\ pc = "live_show"
    /\ out' = << <<"placeholder", utc_iso(clock), prices>> >>
    /\ pc' = "live_sleep"
    /\ UNCHANGED <<config, tick, clock, prices, msgs, attempts, plots, file, hist, call,
                   history>>

\* line 71: time.sleep(interval)
LiveSleep ==
    /\ pc = "live_sleep"
    /\ clock' = clock + interval
    /\ pc' = "live_fetch"
    /\ UNCHANGED <<config, tick, prices, out, msgs, attempts, plots, file, hist, call,
                   history>>

\* line 46: range(1000) is used up, the script ends
LiveEnd ==
    /\ pc = "live_fetch"
    /\ tick = LiveTicks
    /\ pc' = "done"
    /\ UNCHANGED <<config, tick, clock, prices, out, msgs, attempts, plots, file, hist, call,
                   history>>

NextDash ==
    \/ StartLive
    \/ NotStarted
    \/ LiveFetchOk
    \/ LiveFetchFail
    \/ LiveAppend
    \/ LiveShow
    \/ LiveSleep
    \/ LiveEnd

SpecDash == InitDash /\ [][NextDash]_vars

\* ===================================================================
\* Properties of the poll loop (Spec)
\* ===================================================================

\* The positions of a tick after the tick's line has been printed.
AfterDisplay == {"log", "check", "send", "portfolio", "run_once", "sleep"}
\* The positions of a tick after tracker.log has returned.
AfterLog == {"check", "send", "portfolio", "run_once", "sleep"}
\* The positions of a tick after its alerts have been evaluated, printed
\* and, if any, handed to send_telegram.
AfterSend == {"portfolio", "run_once", "sleep"}

\* The current tick's fetch raised (line 221 printed "Fetch failed:").
FetchFailedTick ==
    /\ pc \in {"display"} \cup AfterDisplay
    /\ out # <<>>
    /\ out[1] = <<"Fetch failed:">>

TickLinePrinted == \E i \in 1..Len(out) : out[i][1] = "tick"

\* the value cells of a row are all empty
RowAllAbsent(row) == \A i \in 2..Len(row) : row[i] = ""

LastRow == fileRows[Len(fileRows)]

\* The rows this process has appended.
Appended == Len(fileRows) - Len(rows0)

\* rows is the beginning of all
IsPrefix(rows, all) == Len(rows) <= Len(all) /\ SubSeq(all, 1, Len(rows)) = rows

\* The loop was left by a KeyboardInterrupt (line 247 printed).
Interrupted ==
    /\ pc \in {"plot", "exit"}
    /\ out # <<>>
    /\ out[1] = <<"Stopped by user.">>

\* The step that takes the KeyboardInterrupt.
InterruptStep == pc \in LoopPcs /\ Interrupted'

\* price <= threshold for sym, both present
Crossing(ps, thrs, sym) ==
    /\ HasKey(ps, sym)
    /\ At(ps, sym) # None
    /\ HasKey(thrs, sym)
    /\ At(ps, sym)[1] <= At(thrs, sym)[1]

MsgsFor(ms, sym) == {i \in 1..Len(ms) : ms[i].sym = sym}

\* ------------------------------------------------------------------ C1

\* In a tick whose fetch failed: prices has every tracked symbol, every
\* value absent, and no other key; the tick's line is printed; with logging
\* enabled the tick's row is in the file once tracker.log has returned, and
\* its values are all empty.
C1_AbsentObservation ==
    FetchFailedTick =>
        /\ \A i \in 1..Len(symbols) : HasKey(prices, symbols[i])
        /\ \A j \in 1..Len(prices) :
              /\ prices[j][2] = None
              /\ \E i \in 1..Len(symbols) : symbols[i] = prices[j][1]
        /\ pc \in AfterDisplay => TickLinePrinted
        /\ (pc \in AfterLog /\ csv_path # "") =>
              /\ Appended = tick
              /\ Len(LastRow) = 1 + Len(symbols)
              /\ RowAllAbsent(LastRow)

\* The failing fetch leads to the display step of the same tick, however
\* many fetches failed before it; the tick of a failed fetch ends, when run
\* once is not set and no interrupt arrives, in the sleep step, and the sleep
\* step leads to the next fetch.
C1_LoopGoesOn ==
    /\ (pc = "fetch" /\ fails' = fails + 1) => (pc' = "display" /\ FetchFailedTick')
    /\ (FetchFailedTick /\ pc = "run_once" /\ ~run_once /\ ~InterruptStep) => pc' = "sleep"
    /\ (pc = "sleep" /\ ~InterruptStep) => pc' = "fetch"

\* C1: whenever the fetch of a tick fails, the tick goes on with an
\* observation that maps every tracked symbol to absent (never a partly
\* filled mapping), the tick's line is still printed, with logging enabled a
\* row of absent values is still appended, and the loop goes on to the sleep
\* step instead of ending; the same after any number of failing ticks.
C1_FetchFailureRecovered == [](C1_AbsentObservation) /\ [][C1_LoopGoesOn]_vars

\* Two failing fetches in a row, logging enabled: the second tick is in its
\* sleep step and the file has both rows.
C1_Witness ==
    /\ FetchFailedTick
    /\ fails = 2
    /\ pc = "sleep"
    /\ csv_path # ""
    /\ Appended = 2
    /\ RowAllAbsent(LastRow)

\* ------------------------------------------------------------------ C2

C2_RunOnceState ==
    /\ run_once =>
          /\ tick <= 1
          /\ checks <= 1
          /\ Appended <= 1
          /\ sleeps = <<>>
          /\ pc # "sleep"
          /\ (pc \in {"plot", "exit"} /\ ~Interrupted) => (tick = 1 /\ checks = 1)
    /\ ~run_once =>
          /\ \A i \in 1..Len(sleeps) : sleeps[i] = interval
          /\ pc \in {"display"} \cup AfterDisplay => Len(sleeps) = tick - 1
          /\ pc = "fetch" => Len(sleeps) = tick
          /\ pc \in {"plot", "exit"} => Interrupted

C2_RunOnceStep ==
    /\ (pc = "run_once" /\ ~InterruptStep) =>
          IF run_once THEN pc' = "plot" /\ ~Interrupted' ELSE pc' = "sleep"
    /\ (pc = "sleep" /\ ~InterruptStep) =>
          (pc' = "fetch" /\ sleeps' = Append(sleeps, interval))

\* C2: with run once set the loop makes exactly one tick (one fetch, at most
\* one append, one alert evaluation) and ends without a sleep, whether the
\* fetch succeeded or failed; without it every tick that completes goes to
\* the sleep step, which sleeps the configured interval and leads to the next
\* fetch.
C2_RunOnce == [](C2_RunOnceState) /\ [][C2_RunOnceStep]_vars

\* Run once, the fetch failed, the one tick is over and main() has returned
\* without a sleep.
C2_Witness ==
    /\ run_once
    /\ fails = 1
    /\ pc = "exit"
    /\ ~Interrupted
    /\ tick = 1
    /\ checks = 1
    /\ sleeps = <<>>

\* ------------------------------------------------------------------ C3

\* C3: a failure of the append in one tick (the file write raising) is
\* contained in that tick: the loop is not ended by it, the later ticks run.
\* (Stated as: the process is never ended by the exception of an append.)
C3_AppendFailureContained == pc # "crashed"

\* ------------------------------------------------------------------ C4

\* Every row of the file is whole; once main() has returned after an
\* interrupt, with plotting and logging enabled, a chart was attempted for
\* each tracked symbol, in order.
C4_WholeRows ==
    /\ csv_path # "" => \A i \in 1..Len(fileRows) : Len(fileRows[i]) = 1 + Len(symbols)
    /\ (pc = "exit" /\ Interrupted /\ Plotting) =>
          /\ Len(plots) = Len(symbols)
          /\ \A i \in 1..Len(symbols) : plots[i][1] = symbols[i]

\* The interrupt leaves the loop for the final reporting and leaves the file
\* as it is; nothing after it writes the file or returns to the loop.
C4_InterruptStep ==
    /\ InterruptStep => (pc' = "plot" /\ file' = file)
    /\ Interrupted => (Interrupted' /\ file' = file)

\* C4: a KeyboardInterrupt at any position of the running loop (fetching,
\* processing, sleeping) ends the loop and leaves every row persisted so far
\* in place, with no partly written row; the final reporting (a chart per
\* tracked symbol when plotting and logging are enabled) still runs and
\* main() returns.
C4_GracefulInterrupt == [](C4_WholeRows) /\ [][C4_InterruptStep]_vars

\* Interrupted after two rows were appended, both charts attempted, main()
\* has returned.
C4_Witness ==
    /\ Interrupted
    /\ pc = "exit"
    /\ Plotting
    /\ Appended = 2
    /\ Len(plots) = 2

\* ------------------------------------------------------------------ C7

C7_RowsPerTick ==
    /\ IsPrefix(rows0, fileRows)
    /\ csv_path # "" =>
          /\ pc \in AfterLog \cup {"fetch"} => Appended = tick
          /\ pc \in {"display", "log"} => Appended = tick - 1
          /\ Appended <= tick
    /\ csv_path = "" => (fileRows = <<>> /\ ~fileExists)

C7_Grows ==
    /\ IsPrefix(fileRows, fileRows')
    /\ Len(fileRows') <= Len(fileRows) + 1
    /\ fileRows' # fileRows => (pc = "log" /\ pc' = "check")

\* C7: with logging enabled each tick appends exactly one row and what the
\* file held is never changed or removed (after n ticks it holds what it
\* held before, then the n rows); with logging disabled no tick writes.
C7_AppendOnly == [](C7_RowsPerTick) /\ [][C7_Grows]_vars

\* Two ticks done on a file that an earlier run left with a header and a row.
C7_Witness ==
    /\ csv_path # ""
    /\ Len(rows0) = 2
    /\ tick = 2
    /\ pc = "sleep"
    /\ Len(fileRows) = 4
    /\ SubSeq(fileRows, 1, 2) = rows0

\* ------------------------------------------------------------------ C9

\* C9: an absent price never alerts, whatever the threshold: every message
\* of a tick is for a symbol whose price is present, only the tick's messages
\* are posted, and a tick whose fetch failed has no message, prints no alert
\* and posts nothing.
C9_AbsentNeverAlerts ==
    /\ \A i \in 1..Len(msgs) : HasKey(prices, msgs[i].sym) /\ At(prices, msgs[i].sym) # None
    /\ \A i \in 1..Len(attempts) : i <= Len(msgs) /\ attempts[i][1] = msgs[i]
    /\ FetchFailedTick =>
          /\ msgs = <<>>
          /\ attempts = <<>>
          /\ pc # "send"
          /\ \A i \in 1..Len(out) : out[i][1] # "ALERT:"

\* The fetch failed, thresholds and credentials are configured, and the
\* tick's alerts have been evaluated.
C9_Witness ==
    /\ FetchFailedTick
    /\ thresholds # <<>>
    /\ HasCredentials(telegram)
    /\ pc = "portfolio"
    /\ checks = tick
    /\ msgs = <<>>

\* ----------------------------------------------------------------- C10

\* C10: no debouncing across ticks: in every tick, whatever the earlier
\* ticks alerted, each tracked symbol whose price is at or under its
\* threshold has its message, printed and handed to send_telegram, which
\* with credentials attempts each message of the tick.
C10_NoDebounce ==
    pc \in AfterSend \cup {"send"} =>
        /\ \A i \in 1..Len(symbols) :
              Crossing(prices, thresholds, symbols[i]) =>
                  \E j \in 1..Len(msgs) :
                      /\ msgs[j].sym = symbols[i]
                      /\ \E k \in 1..Len(out) : out[k] = <<"ALERT:", msgs[j]>>
        /\ (pc \in AfterSend /\ HasCredentials(telegram)) => Len(attempts) = Len(msgs)

\* The second tick alerts BTC again: the first tick's row shows BTC at the
\* threshold, and so is the price now.
C10_Witness ==
    /\ tick = 2
    /\ pc = "sleep"
    /\ csv_path # ""
    /\ HasCredentials(telegram)
    /\ Get(thresholds, "BTC") = Some(1)
    /\ fileRows[Len(fileRows) - 1][2] = "1"
    /\ Get(prices, "BTC") = Some(1)
    /\ \E j \in 1..Len(msgs) : msgs[j].sym = "BTC"
    /\ Len(attempts) = Len(msgs)

\* ===================================================================
\* Properties of the observation store (SpecStore)
\* ===================================================================

\* ------------------------------------------------------------------ C5

\* C5: every row log() appends has 1 + |tracked symbols| cells, the
\* timestamp first, then per tracked symbol, in order, its price, empty if
\* the price is absent or the mapping has no entry for the symbol.
C5_FixedColumns ==
    (call[1] = "log" /\ csv_path # "") =>
        /\ Len(LastRow) = 1 + Len(symbols)
        /\ LastRow[1] = now_iso(clock)
        /\ \A i \in 1..Len(symbols) :
              LastRow[i + 1] = IF HasKey(call[2], symbols[i])
                                  /\ At(call[2], symbols[i]) # None
                               THEN ToString(At(call[2], symbols[i])[1])
                               ELSE ""

\* Two symbols tracked, log() called with a mapping that has ETH only, and
\* that absent.
C5_Witness ==
    /\ call = <<"log", << <<"ETH", None>> >> >>
    /\ csv_path # ""
    /\ Len(symbols) = 2
    /\ Len(LastRow) = 3

\* ------------------------------------------------------------------ C6

HasHeader(rows) == rows # <<>> /\ rows[1][1] = "timestamp"
HeaderCount(rows) == Cardinality({i \in 1..Len(rows) : rows[i][1] = "timestamp"})

C6_Step ==
    /\ HasHeader(fileRows) =>
          /\ IsPrefix(fileRows, fileRows')
          /\ HeaderCount(fileRows') = 1
    /\ HeaderCount(fileRows') > HeaderCount(fileRows) => ~fileExists

\* C6: once the file has a header row, no construction of a tracker and no
\* append writes a second header or changes the first; a header is written
\* only to a file that does not exist.
C6_HeaderStable == [][C6_Step]_vars

\* A tracker for other symbols has just been constructed on a file that has
\* a header and rows.
C6_Witness ==
    /\ call = <<"init">>
    /\ csv_path # ""
    /\ HasHeader(fileRows)
    /\ Len(fileRows) >= 2
    /\ Header(symbols) # fileRows[1]

\* ----------------------------------------------------------------- C17

\* C17: whatever trackers were run against the file, with whatever symbols,
\* and whether the file was missing or empty at first: the first row of the
\* file is the header and every row has as many columns as the header.
C17_RowsMatchHeader ==
    fileRows # <<>> =>
        /\ HasHeader(fileRows)
        /\ \A i \in 1..Len(fileRows) : Len(fileRows[i]) = Len(fileRows[1])

\* ===================================================================
\* Properties of AlertManager.check (SpecCheck)
\* ===================================================================

\* ------------------------------------------------------------------ C8

\* C8: check returns exactly one message for each symbol that has a
\* threshold and a present price with price <= threshold (equal counts), and
\* none for any other symbol; the message carries the symbol, the price and
\* the threshold.
C8_CheckExact ==
    pc = "returned" =>
        /\ \A sym \in {"BTC", "ETH"} :
              Cardinality(MsgsFor(msgs, sym))
                  = IF Crossing(prices, thresholds, sym) THEN 1 ELSE 0
        /\ \A i \in 1..Len(msgs) :
              /\ msgs[i].sym \in {"BTC", "ETH"}
              /\ msgs[i].price = At(prices, msgs[i].sym)[1]
              /\ msgs[i].thr = At(thresholds, msgs[i].sym)[1]

\* BTC at its threshold, ETH over its own: one message, for BTC.
C8_Witness ==
    /\ pc = "returned"
    /\ prices = << <<"BTC", Some(1)>>, <<"ETH", Some(2)>> >>
    /\ Get(thresholds, "BTC") = Some(1)
    /\ Get(thresholds, "ETH") = Some(1)
    /\ msgs = << AlertMsg("BTC", 1, 1) >>

\* ----------------------------------------------------------------- C11

\* the first position of sym in syms
FirstIndex(syms, sym) ==
    CHOOSE i \in 1..Len(syms) : syms[i] = sym /\ \A j \in 1..(i - 1) : syms[j] # sym

\* the messages are for tracked symbols, in the order the symbols are tracked
InTrackedOrder(ms, syms) ==
    /\ \A i \in 1..Len(ms) : \E k \in 1..Len(syms) : syms[k] = ms[i].sym
    /\ \A i, j \in 1..Len(ms) :
          i < j => FirstIndex(syms, ms[i].sym) < FirstIndex(syms, ms[j].sym)

C11_CallStep ==
    checks' = checks + 1 =>
        /\ prices' = prices
        /\ thresholds' = thresholds
        /\ checks >= 1 => msgs' = msgs
        /\ prices \in Observations(symbols) => InTrackedOrder(msgs', symbols)

\* C11: check is idempotent and pure: a call changes neither the price
\* mapping nor the threshold mapping, a second call on the same observation
\* and thresholds returns the same messages as the first, and on the
\* observation of a tracker the messages are in tracked-symbol order.
C11_CheckIdempotent == [][C11_CallStep]_vars

\* The second call on an observation of ETH, BTC (tracked in this order),
\* both at their thresholds: two messages, ETH first.
C11_Witness ==
    /\ checks = 2
    /\ symbols = <<"ETH", "BTC">>
    /\ prices = << <<"ETH", Some(1)>>, <<"BTC", Some(1)>> >>
    /\ Len(msgs) = 2
    /\ msgs[1].sym = "ETH"
    /\ msgs[2].sym = "BTC"

\* ===================================================================
\* More properties of the poll loop (Spec)
\* ===================================================================

\* ----------------------------------------------------------------- C12

\* the attempts of the tick that raised
FailedAttempts == {i \in 1..Len(attempts) : ~attempts[i][2]}
\* the "Failed to send telegram:" lines of the tick
FailureLines == {k \in 1..Len(out) : out[k] = <<"Failed to send telegram:">>}

C12_Attempts ==
    /\ Len(attempts) <= Len(msgs)
    /\ \A i \in 1..Len(attempts) : attempts[i][1] = msgs[i]
    /\ ~(telegram.token /\ telegram.chat_id) => attempts = <<>>
    /\ (telegram.token /\ telegram.chat_id /\ pc \in AfterSend) =>
          Len(attempts) = Len(msgs)
    /\ Cardinality(FailureLines) = Cardinality(FailedAttempts)

C12_SendStep ==
    (pc = "send" /\ ~InterruptStep) =>
        /\ pc' \in {"send", "portfolio"}
        /\ tick' = tick
        /\ msgs' = msgs
        /\ IF telegram.token /\ telegram.chat_id
           THEN /\ Len(attempts') = Len(attempts) + 1
                /\ SubSeq(attempts', 1, Len(attempts)) = attempts
           ELSE attempts' = attempts

\* C12: with both credentials send_telegram makes exactly one delivery
\* attempt per message of the batch, in batch order; an attempt that raises
\* is caught and printed, the attempts for the later messages are still made
\* and the tick goes on to the portfolio step; with either credential
\* missing there is no attempt.
C12_NotifierPerMessage == [](C12_Attempts) /\ [][C12_SendStep]_vars

\* A batch of two: the first attempt raised, the second was made all the
\* same, and the tick is past the notifier.
C12_Witness ==
    /\ pc = "portfolio"
    /\ Len(msgs) = 2
    /\ Len(attempts) = 2
    /\ ~attempts[1][2]
    /\ attempts[2] = <<msgs[2], TRUE>>
    /\ Cardinality(FailureLines) = 1

\* ===================================================================
\* Properties of portfolio_value (SpecValue)
\* ===================================================================

\* ----------------------------------------------------------------- C13

\* what the holding e = <<symbol, quantity>> is worth at the prices ps
Worth(ps, e) ==
    IF HasKey(ps, Upper(e[1])) /\ At(ps, Upper(e[1])) # None
    THEN At(ps, Upper(e[1]))[1] * e[2][1]
    ELSE 0

\* the sum of f over the indices in S
RECURSIVE SumOver(_, _)
SumOver(S, f) ==
    IF S = {} THEN 0
    ELSE LET i == CHOOSE i \in S : TRUE IN f[i] + SumOver(S \ {i}, f)

Priced(ps, hs) ==
    {i \in 1..Len(hs) : HasKey(ps, Upper(hs[i][1])) /\ At(ps, Upper(hs[i][1])) # None}

\* C13: portfolio_value returns the sum of price * quantity over exactly the
\* held symbols whose price is present; a held symbol whose price is absent
\* or that the price mapping does not have adds 0 and raises nothing, so with
\* no present price the value is 0.
C13_PortfolioValue ==
    pc = "returned" =>
        /\ call[1] = "value"
        /\ call[2] = SumOver(Priced(prices, holdings),
                             [i \in 1..Len(holdings) |->
                                 At(prices, Upper(holdings[i][1]))[1] * holdings[i][2][1]])
        /\ call[2] = SumOver(1..Len(holdings),
                             [i \in 1..Len(holdings) |-> Worth(prices, holdings[i])])
        /\ (\A j \in 1..Len(prices) : prices[j][2] = None) => call[2] = 0

\* BTC held and absent, ETH held twice over at 2: the value is 4.
C13_Witness ==
    /\ pc = "returned"
    /\ prices = << <<"BTC", None>>, <<"ETH", Some(2)>> >>
    /\ holdings = << <<"btc", Some(1)>>, <<"ETH", Some(2)>> >>
    /\ call = <<"value", 4>>

\* ----------------------------------------------------------------- C16

\* the positions of the lines of out whose first word is w
LinesOf(w) == {k \in 1..Len(out) : out[k][1] = w}

\* The lines of a tick come out in the order of its steps.
C16_LinesInOrder ==
    /\ \A k \in LinesOf("tick") :
          \A l \in LinesOf("ALERT:") \cup LinesOf("Failed to send telegram:")
                   \cup LinesOf("PORTFOLIO VALUE:") : k < l
    /\ \A k \in LinesOf("ALERT:") :
          \A l \in LinesOf("Failed to send telegram:") \cup LinesOf("PORTFOLIO VALUE:") : k < l
    /\ \A k \in LinesOf("Failed to send telegram:") :
          \A l \in LinesOf("PORTFOLIO VALUE:") : k < l
    /\ (pc \in {"run_once", "sleep"} /\ holdings # <<>>) =>
          Cardinality(LinesOf("PORTFOLIO VALUE:")) = 1
    /\ holdings = <<>> => LinesOf("PORTFOLIO VALUE:") = {}

\* Unless the tick is cut short (an interrupt, an exception leaving main()),
\* each step leads to the next one of the order, each effect belongs to its
\* own step, and a fetch begins only when the tick before has appended its
\* row, evaluated its alerts, made its deliveries and slept.
C16_StepOrder ==
    /\ (pc \in LoopPcs /\ ~InterruptStep /\ pc' # "crashed") =>
          /\ pc = "fetch" => pc' = "display"
          /\ pc = "display" => pc' = "log"
          /\ pc = "log" => pc' = "check"
          /\ pc = "check" => pc' = IF msgs' # <<>> THEN "send" ELSE "portfolio"
          /\ pc = "send" => pc' \in {"send", "portfolio"}
          /\ pc = "portfolio" => pc' = "run_once"
          /\ pc = "run_once" => pc' \in {"sleep", "plot"}
          /\ pc = "sleep" => pc' = "fetch"
    /\ requests' # requests => pc = "fetch"
    /\ fileRows' # fileRows => pc = "log"
    /\ checks' # checks => pc = "check"
    /\ Len(attempts') > Len(attempts) => pc = "send"
    /\ sleeps' # sleeps => pc = "sleep"
    /\ tick' # tick =>
          /\ pc = "fetch"
          /\ tick' = tick + 1
          /\ checks = tick
          /\ csv_path # "" => Appended = tick
          /\ HasCredentials(telegram) => Len(attempts) = Len(msgs)
          /\ Len(sleeps) = tick

\* C16: in every tick the steps come in the order fetch, display, persist
\* (with logging enabled), evaluate alerts, deliver alerts, portfolio value
\* (with holdings configured), sleep; and the fetch of the next tick does not
\* begin before the tick's row is appended and its alerts are delivered.
C16_TickOrder == [](C16_LinesInOrder) /\ [][C16_StepOrder]_vars

\* The first tick is over, slept included: its row is in the file, both its
\* alerts were delivered, its portfolio line is out; the second fetch is
\* next.
C16_Witness ==
    /\ pc = "fetch"
    /\ tick = 1
    /\ csv_path # ""
    /\ Appended = 1
    /\ checks = 1
    /\ Len(msgs) = 2
    /\ Len(attempts) = 2
    /\ LinesOf("PORTFOLIO VALUE:") # {}
    /\ sleeps = <<15>>

\* ----------------------------------------------------------------- C18

\* C18: a tick has one timestamp: the timestamp of the row the tick appended
\* is the timestamp of the line the tick displayed, also when the clock goes
\* on during the tick.
C18_SingleTimestamp ==
    (pc \in AfterLog /\ csv_path # "") =>
        \A k \in LinesOf("tick") : LastRow[1] = out[k][2]

\* ===================================================================
\* Properties of fetch_prices (SpecFetch)
\* ===================================================================

\* ----------------------------------------------------------------- C14

\* C14: a fetch with no symbol to track returns the empty mapping and makes
\* no request.
C14_EmptyNoRequest ==
    (symbols = <<>> /\ pc # "call") =>
        /\ pc = "returned"
        /\ prices = <<>>
        /\ requests = 0

\* ----------------------------------------------------------------- C15

\* the response of the call that returned
ResponseData == call[2]

LacksIdOrKey(data, id) == id \notin DOMAIN data \/ ~data[id][1]

\* one entry per tracked symbol and no other
OneEntryPerSymbol(ps, syms) ==
    /\ \A i \in 1..Len(syms) : HasKey(ps, syms[i])
    /\ \A j \in 1..Len(ps) : \E i \in 1..Len(syms) : syms[i] = ps[j][1]
    /\ \A j, k \in 1..Len(ps) : ps[j][1] = ps[k][1] => j = k

\* C15 as stated: a successful fetch has exactly one entry per tracked
\* symbol, and a symbol's entry is absent if and only if the response lacks
\* the symbol's identifier or lacks the currency key under it.
C15_AbsentIffLacking ==
    pc = "returned" =>
        /\ OneEntryPerSymbol(prices, symbols)
        /\ \A i \in 1..Len(symbols) :
              At(prices, symbols[i]) = None
                  <=> LacksIdOrKey(ResponseData, to_id(symbols[i]))

\* C15, amended: a successful fetch has exactly one entry per tracked symbol;
\* a symbol's entry is absent if and only if the response lacks the symbol's
\* identifier, lacks the currency key under it, or holds null under that
\* key; a number under the key is returned as that number, zero as zero,
\* and a zero price is compared against the symbol's threshold by check and
\* is a term of the portfolio value like any other price.
C15_FetchMapping ==
    pc = "returned" =>
        /\ OneEntryPerSymbol(prices, symbols)
        /\ \A i \in 1..Len(symbols) :
              LET id == to_id(symbols[i])
                  price == At(prices, symbols[i])
              IN /\ price = None
                       <=> (LacksIdOrKey(ResponseData, id) \/ ResponseData[id][2] = None)
                 /\ price # None => price = ResponseData[id][2]
                 /\ (price = Some(0) /\ HasKey(thresholds, symbols[i])) =>
                       \E j \in 1..Len(check(prices, thresholds)) :
                           /\ check(prices, thresholds)[j].sym = symbols[i]
                           /\ check(prices, thresholds)[j].price = 0
        /\ portfolio_value(prices, holdings)
              = SumOver(1..Len(holdings),
                        [i \in 1..Len(holdings) |-> Worth(prices, holdings[i])])

\* Bitcoin quoted at zero, null under ethereum's key: BTC is the number
\* zero, ETH is absent, and BTC alerts against its threshold.
C15_Witness ==
    /\ pc = "returned"
    /\ symbols = <<"BTC", "ETH">>
    /\ DOMAIN ResponseData = {"bitcoin", "ethereum"}
    /\ ResponseData["bitcoin"] = Quoted(Some(0))
    /\ ResponseData["ethereum"] = Quoted(None)
    /\ prices = << <<"BTC", Some(0)>>, <<"ETH", None>> >>
    /\ Len(check(prices, thresholds)) = 1

\* ===================================================================
\* Properties of the dashboard's live loop (SpecDash)
\* ===================================================================

\* ----------------------------------------------------------------- C19

\* the rows this start has added to the session history
Added == Len(history) - Len(rows0)

C19_RowsAndTicks ==
    /\ IsPrefix(rows0, history)
    /\ requests = tick
    /\ tick <= LiveTicks
    /\ fails <= 1
    /\ Added = IF pc = "live_append" THEN requests - fails - 1 ELSE requests - fails
    /\ fails = 1 =>
          /\ pc = "done"
          /\ out = << <<"st.error", "Fetch failed:">> >>

C19_LiveStep ==
    /\ fails' # fails => (history' = history /\ pc' = "done")
    /\ history' # history =>
          /\ pc = "live_append"
          /\ Len(history') = Len(history) + 1
          /\ IsPrefix(history, history')
    /\ pc = "done" => (requests' = requests /\ history' = history)

\* C19: in the live loop the session history gains exactly one row per fetch
\* that succeeded; the first fetch that fails shows the error and ends the
\* loop, with no row for that tick and no fetch after it; a start makes at
\* most 1000 ticks.
C19_LiveLoop == [](C19_RowsAndTicks) /\ [][C19_LiveStep]_vars

\* The third fetch of a start failed: the loop is over, the history has the
\* two rows of the fetches before it, on top of what the session held.
C19_Witness ==
    /\ pc = "done"
    /\ fails = 1
    /\ requests = 3
    /\ Added = 2
    /\ rows0 # <<>>
    /\ out = << <<"st.error", "Fetch failed:">> >>

====
